---- MODULE Spec2Model ----
(***************************************************************************)
(* The service_status block of i3status-rust                               *)
(* (src/blocks/service_status.rs): run(), the Driver trait and             *)
(* SystemdDriver.  Strings are sequences of bytes (0..255).  Every monitor *)
(* flow f owns its own copy of the state, so all variables are functions   *)
(* of the flow.                                                            *)
(***************************************************************************)
EXTENDS Integers, Sequences, FiniteSets, TLC

-----------------------------------------------------------------------------
(* Bounds of the model. *)

\* Longest service name, in characters, drawn over NameChars.
MaxNameLen == 2

\* Number of ActiveState transitions the backend performs per unit.
MaxChanges == 2

\* Number of most recent statuses the output sink remembers.
SinkWindow == 2

\* Number of interactive events the user sends to a block.
MaxEvents == 2

-----------------------------------------------------------------------------
(* Strings as byte sequences. *)

\* "cups"
cups == <<99, 117, 112, 115>>
\* "a-b"
a_dash_b == <<97, 45, 98>>
\* "a_2db"
a_2db == <<97, 95, 50, 100, 98>>
\* "caf\u{e9}" in UTF-8: the last character takes two non-ASCII bytes
cafe_acute == <<99, 97, 102, 195, 169>>
\* "getty@tty1"
getty_at_tty1 == <<103, 101, 116, 116, 121, 64, 116, 116, 121, 49>>

\* ".service", the literal of format!("{service}.service")
DotService == <<46, 115, 101, 114, 118, 105, 99, 101>>
\* "/org/freedesktop/systemd1/unit/"
UnitPathPrefix ==
    <<47, 111, 114, 103, 47, 102, 114, 101, 101, 100, 101, 115, 107, 116,
      111, 112, 47, 115, 121, 115, 116, 101, 109, 100, 49, 47, 117, 110,
      105, 116, 47>>
\* " active" and " inactive"
SpActive == <<32, 97, 99, 116, 105, 118, 101>>
SpInactive == <<32, 105, 110, 97, 99, 116, 105, 118, 101>>
\* " "
Sp == <<32>>

\* The characters service names are drawn from: 'a', 'Z', '2', '-', '_', '.',
\* '@', TAB and the two-byte UTF-8 character U+00E9.
NameChars ==
    {<<97>>, <<90>>, <<50>>, <<45>>, <<95>>, <<46>>, <<64>>, <<9>>, <<195, 169>>}

RECURSIVE NamesUpTo(_)
NamesUpTo(n) ==
    IF n = 0 THEN {<<>>}
    ELSE LET shorter == NamesUpTo(n - 1)
         IN  shorter \cup {s \o c : s \in shorter, c \in NameChars}

\* Service names of the encoder's specification.
EncNames == NamesUpTo(MaxNameLen) \cup {cups, a_dash_b, a_2db, cafe_acute, getty_at_tty1}

-----------------------------------------------------------------------------
(* SystemdDriver::new, the pure part: validation and path encoding. *)

\* A variant of is_ascii that accepts every byte.
is_ascii_any_byte(s) == \A i \in 1..Len(s) : s[i] <= 255

\* str::is_ascii
is_ascii(s) == \A i \in 1..Len(s) : s[i] <= 127

\* u8::is_ascii_graphic, a variant of is_ascii_alphanumeric that also takes the
\* punctuation.
is_ascii_graphic(b) == b \in 33..126

\* u8::is_ascii_alphanumeric
is_ascii_alphanumeric(b) ==
    \/ b \in 48..57
    \/ b \in 65..90
    \/ b \in 97..122

\* A variant of hex_digit that prints uppercase digits, as {:X} does.
hex_digit_upper(n) == IF n < 10 THEN 48 + n ELSE 55 + n

\* One lowercase hexadecimal digit of {:x}
hex_digit(n) == IF n < 10 THEN 48 + n ELSE 87 + n

\* format!("_{b:02x}")
format_hex(b) == <<95, hex_digit(b \div 16), hex_digit(b % 16)>>

\* A variant of the closure that lets '_' through unescaped.
encode_byte_keeps_underscore(b) ==
    IF is_ascii_alphanumeric(b) \/ b = 95 THEN <<b>> ELSE format_hex(b)

\* The closure of .map(|b| ...)
encode_byte(b) == IF is_ascii_alphanumeric(b) THEN <<b>> ELSE format_hex(b)

\* .bytes().map(..).collect::<String>()
RECURSIVE collect(_, _)
collect(bytes, i) ==
    IF i > Len(bytes) THEN <<>>
    ELSE encode_byte(bytes[i]) \o collect(bytes, i + 1)

\* let encoded_service = format!("{service}.service").bytes().map(..).collect()
encoded_service(service) == collect(service \o DotService, 1)

\* let path = format!("/org/freedesktop/systemd1/unit/{encoded_service}")
path(service) == UnitPathPrefix \o encoded_service(service)

-----------------------------------------------------------------------------
(* Configuration, formats and the widget. *)

\* The monitor flows.  A specification runs those in the variable flows.
Flows == {1, 2}

\* A format token: a literal text (var = "") or a placeholder $var.
Lit(bytes) == [var |-> "", text |-> bytes]
Placeholder(name) == [var |-> name, text |-> <<>>]

\* A FormatConfig of the configuration file: absent, or a template that the
\* format parser accepts or rejects.
NoFormat == [given |-> FALSE, valid |-> TRUE, tokens |-> <<>>]
GivenFormat(tokens) == [given |-> TRUE, valid |-> TRUE, tokens |-> tokens]
BadFormat == [given |-> TRUE, valid |-> FALSE, tokens |-> <<>>]

\* " $service active " and " $service inactive ", the defaults of run
DefaultActiveFormat == <<Lit(Sp), Placeholder("service"), Lit(SpActive \o Sp)>>
DefaultInactiveFormat == <<Lit(Sp), Placeholder("service"), Lit(SpInactive \o Sp)>>
\* "$service active" and "$service inactive"
PlainActiveFormat == <<Placeholder("service"), Lit(SpActive)>>
PlainInactiveFormat == <<Placeholder("service"), Lit(SpInactive)>>

\* Option<State>: "None" or a State
NoState == "None"

\* The presentation part of a Config.
DefaultProfile ==
    [active_format |-> NoFormat, inactive_format |-> NoFormat,
     active_state |-> NoState, inactive_state |-> NoState]
PlainProfile ==
    [active_format |-> GivenFormat(PlainActiveFormat),
     inactive_format |-> GivenFormat(PlainInactiveFormat),
     active_state |-> "Good", inactive_state |-> "Warning"]
BadProfile ==
    [active_format |-> NoFormat, inactive_format |-> BadFormat,
     active_state |-> NoState, inactive_state |-> NoState]
Profiles == {DefaultProfile, PlainProfile, BadProfile}

\* struct Config (the driver is always DriverType::Systemd)
MkConfig(service, p) ==
    [service |-> service,
     active_format |-> p.active_format, inactive_format |-> p.inactive_format,
     active_state |-> p.active_state, inactive_state |-> p.inactive_state]

\* Service names of the monitor specifications.
FlowNames == {cups, a_dash_b, cafe_acute}
Configs == {MkConfig(n, p) : n \in FlowNames, p \in Profiles}

\* FormatConfig::with_default: the configured template, else the default
with_default_ok(fc) == fc.valid
with_default(fc, default) == IF fc.given THEN fc.tokens ELSE default

\* Option::unwrap_or
unwrap_or(opt, default) == IF opt = NoState THEN default ELSE opt

\* Widget::new()
NewWidget == [state |-> "Idle", format |-> <<>>, values |-> <<>>]

\* The text a widget shows: every placeholder replaced by its value.
RECURSIVE render(_, _, _)
render(format, values, i) ==
    IF i > Len(format) THEN <<>>
    ELSE (IF format[i].var = "" THEN format[i].text
          ELSE IF format[i].var \in DOMAIN values THEN values[format[i].var]
          ELSE <<>>)
         \o render(format, values, i + 1)

\* What the output sink receives for a widget: (classification, text)
Rendered(w) == [state |-> w.state, text |-> render(w.format, w.values, 1)]

\* The ActiveState values of a systemd unit, and one string that differs from
\* "active" only in case.
ActiveStates ==
    {"active", "reloading", "inactive", "failed", "activating", "deactivating",
     "maintenance", "Active"}

-----------------------------------------------------------------------------
(* State. *)

VARIABLES
    flows,                  \* the flows that run
    events,                 \* the block's event channel: events buffered and refused
    config,                 \* run's config argument
    pc,                     \* where run is
    result,                 \* "running", or the error run returned
    event_receiver,         \* api.event_receiver: "open" or "closed"
    widget,                 \* run's widget
    service_active_state,   \* run's local: <<>> before the first query, then <<bool>>
    dbus_conn,              \* the system bus connection: "none", "open", "dropped"
    encoded,                \* encoded_service of SystemdDriver::new, <<>> before
    proxy,                  \* the UnitProxy: its object path, <<>> before it is built
    active_state_changed,   \* the PropertyStream: status and undelivered items
    backend,                \* the unit in systemd: ActiveState and changes so far
    sink,                   \* the statuses the output sink accepted, most recent last
    rec                     \* a recording of the driver calls

vars ==
    <<flows, events, config, pc, result, event_receiver, widget, service_active_state,
      dbus_conn, encoded, proxy, active_state_changed, backend, sink, rec>>

\* The state after construction of the arguments, before run is polled.
\* The recording: whether a connection was attempted, whether a query was ever
\* issued, the queries and publishes since the last return of wait_for_change,
\* the returns of wait_for_change since the last query (each counted up to 2),
\* whether next() ever found the stream ended, the last property read, the
\* successful queries less the calls of set_widget (kept within -2..2), and
\* whether set_widget ever failed.
NewRec ==
    [conn_attempted |-> FALSE, queried |-> FALSE, queries |-> 0, waits |-> 0,
     publishes |-> 0, stream_end_seen |-> FALSE, last_read |-> <<>>,
     unpublished |-> 0, sink_failed |-> FALSE]

InitWith(fs, cfgs, states) ==
    /\ flows = fs
    /\ events = [f \in Flows |-> [queued |-> 0, refused |-> 0]]
    /\ config \in [Flows -> cfgs]
    /\ \A f \in Flows \ fs : config[f] = MkConfig(cups, DefaultProfile)
    /\ pc = [f \in Flows |-> "start"]
    /\ result = [f \in Flows |-> "running"]
    /\ event_receiver = [f \in Flows |-> "open"]
    /\ widget = [f \in Flows |-> NewWidget]
    /\ service_active_state = [f \in Flows |-> <<>>]
    /\ dbus_conn = [f \in Flows |-> "none"]
    /\ encoded = [f \in Flows |-> <<>>]
    /\ proxy = [f \in Flows |-> <<>>]
    /\ active_state_changed = [f \in Flows |-> [status |-> "none", pending |-> 0]]
    /\ backend \in [Flows -> [ActiveState : states, changes : {0}]]
    /\ \A f \in Flows \ fs : backend[f].ActiveState = "inactive"
    /\ sink = [f \in Flows |-> <<>>]
    /\ rec = [f \in Flows |-> NewRec]

Init == InitWith({1}, Configs, ActiveStates)

-----------------------------------------------------------------------------
(* Helpers of the actions. *)

Set(v, f, x) == [v EXCEPT ![f] = x]

Min(a, b) == IF a < b THEN a ELSE b

\* A counter of the recording, counted up to 2
Bump(n) == Min(n + 1, 2)

\* The same, counted down to -2
Lower(n) == IF n > -2 THEN n - 1 ELSE n

\* The sink keeps the last SinkWindow statuses.
Push(q, x) ==
    LET all == Append(q, x)
    IN  IF Len(all) > SinkWindow THEN Tail(all) ELSE all

\* Dropping the SystemdDriver (and the connection it holds) when run returns
DropStream(st) == IF st.status = "none" THEN st ELSE [st EXCEPT !.status = "dropped"]
DropConn(c) == IF c = "none" THEN c ELSE "dropped"

\* A variant of ReturnErr for a connection that all flows share: the flow that
\* returns closes it for every flow.
ReturnErr_shared_conn(f, err) ==
    /\ pc' = Set(pc, f, "done")
    /\ result' = Set(result, f, err)
    /\ dbus_conn' = [g \in Flows |-> DropConn(dbus_conn[g])]
    /\ active_state_changed' =
           [g \in Flows |->
               IF g = f THEN DropStream(active_state_changed[g])
               ELSE IF active_state_changed[g].status = "open"
               THEN [active_state_changed[g] EXCEPT !.status = "ended"]
               ELSE active_state_changed[g]]

\* run returns Err(err): the `?` operator
ReturnErr(f, err) ==
    /\ pc' = Set(pc, f, "done")
    /\ result' = Set(result, f, err)
    /\ dbus_conn' = Set(dbus_conn, f, DropConn(dbus_conn[f]))
    /\ active_state_changed' =
           Set(active_state_changed, f, DropStream(active_state_changed[f]))

\* A variant of active_state that keeps returning the first value it read.
active_state_cached(f, ok) ==
    IF ok
    THEN [ok |-> TRUE,
          value |-> IF rec[f].last_read # <<>> /\ rec[f].last_read[1].ok
                    THEN rec[f].last_read[1].value
                    ELSE backend[f].ActiveState]
    ELSE [ok |-> FALSE, value |-> ""]

\* UnitProxy::active_state, the property read: the string, or a zbus error
active_state(f, ok) ==
    IF ok THEN [ok |-> TRUE, value |-> backend[f].ActiveState]
    ELSE [ok |-> FALSE, value |-> ""]

\* A variant of is_active that takes every state but "inactive" for active.
is_active_unless_inactive(read) ==
    IF read.ok THEN [ok |-> TRUE, value |-> (read.value # "inactive")]
    ELSE [ok |-> FALSE, value |-> FALSE]

\* SystemdDriver::is_active
is_active(read) ==
    IF read.ok THEN [ok |-> TRUE, value |-> (read.value = "active")]
    ELSE [ok |-> FALSE, value |-> FALSE]

\* PropertyStream::next: an item, the end of the stream, or not ready yet
next_ready(st) == st.pending > 0 \/ st.status = "ended"
next_item(st) == IF st.pending > 0 THEN "Some" ELSE "None"
next_stream(st) == IF st.pending > 0 THEN [st EXCEPT !.pending = @ - 1] ELSE st

\* SystemdDriver::wait_for_change: the result of next() is discarded
wait_for_change(item) == "Ok"

-----------------------------------------------------------------------------
(* run, lines 66-78: before the loop. *)

\* A variant of RunStart that leaves the event receiver open.
RunStart_receiver_open(f) ==
    /\ f \in flows
    /\ pc[f] = "start"
    /\ widget' = Set(widget, f, NewWidget)
    /\ pc' = Set(pc, f, "formats")
    /\ UNCHANGED <<flows, events, config, result, event_receiver, service_active_state,
                   dbus_conn, encoded, proxy, active_state_changed, backend, sink,
                   rec>>

\* api.event_receiver.close(); let mut widget = Widget::new();
RunStart(f) ==
    /\ f \in flows
    /\ pc[f] = "start"
    /\ event_receiver' = Set(event_receiver, f, "closed")
    /\ widget' = Set(widget, f, NewWidget)
    /\ pc' = Set(pc, f, "formats")
    /\ UNCHANGED <<flows, events, config, result, service_active_state, dbus_conn, encoded,
                   proxy, active_state_changed, backend, sink, rec>>

\* The two with_default(..)? and the two unwrap_or
Formats(f) ==
    /\ f \in flows
    /\ pc[f] = "formats"
    /\ IF with_default_ok(config[f].active_format)
          /\ with_default_ok(config[f].inactive_format)
       THEN /\ pc' = Set(pc, f, "connect")
            /\ UNCHANGED <<result, dbus_conn, active_state_changed>>
       ELSE ReturnErr(f, "format")
    /\ UNCHANGED <<flows, events, config, event_receiver, widget, service_active_state,
                   encoded, proxy, backend, sink, rec>>

(* SystemdDriver::new, lines 112-147. *)

\* let dbus_conn = new_system_dbus_connection().await?;
Connect(f) ==
    /\ f \in flows
    /\ pc[f] = "connect"
    /\ rec' = Set(rec, f, [rec[f] EXCEPT !.conn_attempted = TRUE])
    /\ \E ok \in BOOLEAN :
          IF ok
          THEN /\ dbus_conn' = Set(dbus_conn, f, "open")
               /\ pc' = Set(pc, f, "validate")
               /\ UNCHANGED <<result, active_state_changed>>
          ELSE ReturnErr(f, "connect")
    /\ UNCHANGED <<flows, events, config, event_receiver, widget, service_active_state,
                   encoded, proxy, backend, sink>>

\* A variant of Validate that goes on whatever the name is.
Validate_lets_through(f) ==
    /\ f \in flows
    /\ pc[f] = "validate"
    /\ pc' = Set(pc, f, "encode")
    /\ UNCHANGED <<flows, events, config, result, event_receiver, widget,
                   service_active_state, dbus_conn, encoded, proxy,
                   active_state_changed, backend, sink, rec>>

\* if !service.is_ascii() { return Err(..) }
Validate(f) ==
    /\ f \in flows
    /\ pc[f] = "validate"
    /\ IF is_ascii(config[f].service)
       THEN /\ pc' = Set(pc, f, "encode")
            /\ UNCHANGED <<result, dbus_conn, active_state_changed>>
       ELSE ReturnErr(f, "validation")
    /\ UNCHANGED <<flows, events, config, event_receiver, widget, service_active_state,
                   encoded, proxy, backend, sink, rec>>

\* let encoded_service = ..; let path = ..;
Encode(f) ==
    /\ f \in flows
    /\ pc[f] = "encode"
    /\ encoded' = Set(encoded, f, encoded_service(config[f].service))
    /\ pc' = Set(pc, f, "proxy")
    /\ UNCHANGED <<flows, events, config, result, event_receiver, widget,
                   service_active_state, dbus_conn, proxy, active_state_changed,
                   backend, sink, rec>>

\* A variant of BuildProxy that goes on without a proxy when the builder fails.
BuildProxy_goes_on(f) ==
    /\ f \in flows
    /\ pc[f] = "proxy"
    /\ \E outcome \in {"ok", "Could not set path", "Failed to create UnitProxy"} :
          proxy' = Set(proxy, f, IF outcome = "ok" THEN path(config[f].service)
                                 ELSE proxy[f])
    /\ pc' = Set(pc, f, "subscribe")
    /\ UNCHANGED <<flows, events, config, result, event_receiver, widget,
                   service_active_state, dbus_conn, encoded, active_state_changed,
                   backend, sink, rec>>

\* UnitProxy::builder(&dbus_conn).path(path).error(..)?.build().await.error(..)?
BuildProxy(f) ==
    /\ f \in flows
    /\ pc[f] = "proxy"
    /\ \E outcome \in {"ok", "Could not set path", "Failed to create UnitProxy"} :
          IF outcome = "ok"
          THEN /\ proxy' = Set(proxy, f, path(config[f].service))
               /\ pc' = Set(pc, f, "subscribe")
               /\ UNCHANGED <<result, dbus_conn, active_state_changed>>
          ELSE /\ ReturnErr(f, outcome)
               /\ UNCHANGED proxy
    /\ UNCHANGED <<flows, events, config, event_receiver, widget, service_active_state,
                   encoded, backend, sink, rec>>

\* A variant of Subscribe that returns the driver without opening the stream.
Subscribe_not_opened(f) ==
    /\ f \in flows
    /\ pc[f] = "subscribe"
    /\ pc' = Set(pc, f, "query")
    /\ UNCHANGED <<flows, events, config, result, event_receiver, widget,
                   service_active_state, dbus_conn, encoded, proxy,
                   active_state_changed, backend, sink, rec>>

\* Ok(Self { active_state_changed: proxy.receive_active_state_changed().await, proxy })
Subscribe(f) ==
    /\ f \in flows
    /\ pc[f] = "subscribe"
    /\ active_state_changed' =
           Set(active_state_changed, f, [status |-> "open", pending |-> 0])
    /\ pc' = Set(pc, f, "query")
    /\ UNCHANGED <<flows, events, config, result, event_receiver, widget,
                   service_active_state, dbus_conn, encoded, proxy, backend, sink,
                   rec>>

-----------------------------------------------------------------------------
(* run, lines 80-97: the loop. *)

\* A variant of Query that, when the read fails, goes on with the state of the
\* previous query if there is one.
Query_keeps_state(f) ==
    /\ f \in flows
    /\ pc[f] = "query"
    /\ \E ok \in BOOLEAN :
          LET read == [ok |-> ok, value |-> IF ok THEN backend[f].ActiveState ELSE ""]
              r == [ok |-> read.ok, value |-> read.ok /\ read.value = "active"]
          IN  /\ rec' = Set(rec, f, [rec[f] EXCEPT !.queried = TRUE,
                                                    !.queries = Bump(@),
                                                    !.waits = 0,
                                                    !.publishes = 0,
                                                    !.last_read = <<read>>,
                                                    !.unpublished =
                                                        IF r.ok THEN Bump(@) ELSE @])
              /\ IF r.ok \/ service_active_state[f] # <<>>
                 THEN /\ service_active_state' =
                             Set(service_active_state, f,
                                 IF r.ok THEN <<r.value>> ELSE service_active_state[f])
                      /\ pc' = Set(pc, f, "render")
                      /\ UNCHANGED <<result, dbus_conn, active_state_changed>>
                 ELSE /\ ReturnErr(f, "Could not get active_state")
                      /\ UNCHANGED service_active_state
    /\ UNCHANGED <<flows, events, config, event_receiver, widget, encoded, proxy, backend,
                   sink>>

\* let service_active_state = driver.is_active().await?;
Query(f) ==
    /\ f \in flows
    /\ pc[f] = "query"
    /\ \E ok \in BOOLEAN :
          LET read == active_state(f, ok)
              r == is_active(read)
          IN  /\ rec' = Set(rec, f, [rec[f] EXCEPT !.queried = TRUE,
                                                    !.queries = Bump(@),
                                                    !.waits = 0,
                                                    !.publishes = 0,
                                                    !.last_read = <<read>>,
                                                    !.unpublished =
                                                        IF r.ok THEN Bump(@) ELSE @])
              /\ IF r.ok
                 THEN /\ service_active_state' = Set(service_active_state, f, <<r.value>>)
                      /\ pc' = Set(pc, f, "render")
                      /\ UNCHANGED <<result, dbus_conn, active_state_changed>>
                 ELSE /\ ReturnErr(f, "Could not get active_state")
                      /\ UNCHANGED service_active_state
    /\ UNCHANGED <<flows, events, config, event_receiver, widget, encoded, proxy, backend,
                   sink>>

\* A variant of profile_widget that binds `service` to the encoded path segment.
profile_widget_encoded(cfg, active) ==
    [state  |-> IF active THEN unwrap_or(cfg.active_state, "Idle")
                ELSE unwrap_or(cfg.inactive_state, "Critical"),
     format |-> IF active THEN with_default(cfg.active_format, DefaultActiveFormat)
                ELSE with_default(cfg.inactive_format, DefaultInactiveFormat),
     values |-> [service |-> encoded_service(cfg.service)]]

\* The widget after lines 83-93: the state and format of the profile the query
\* selects, and the value of the `service` placeholder
profile_widget(cfg, active) ==
    [state  |-> IF active THEN unwrap_or(cfg.active_state, "Idle")
                ELSE unwrap_or(cfg.inactive_state, "Critical"),
     format |-> IF active THEN with_default(cfg.active_format, DefaultActiveFormat)
                ELSE with_default(cfg.inactive_format, DefaultInactiveFormat),
     values |-> [service |-> cfg.service]]

\* A variant of Render that goes straight to the wait when the widget did not
\* change, publishing only changes.
Render_skips_unchanged(f) ==
    /\ f \in flows
    /\ pc[f] = "render"
    /\ widget' = Set(widget, f, profile_widget(config[f], service_active_state[f][1]))
    /\ pc' = Set(pc, f, IF widget'[f] = widget[f] THEN "wait" ELSE "publish")
    /\ UNCHANGED <<flows, events, config, result, event_receiver, service_active_state,
                   dbus_conn, encoded, proxy, active_state_changed, backend, sink,
                   rec>>

\* if service_active_state { .. } else { .. }; widget.set_values(..);
Render(f) ==
    /\ f \in flows
    /\ pc[f] = "render"
    /\ widget' = Set(widget, f, profile_widget(config[f], service_active_state[f][1]))
    /\ pc' = Set(pc, f, "publish")
    /\ UNCHANGED <<flows, events, config, result, event_receiver, service_active_state,
                   dbus_conn, encoded, proxy, active_state_changed, backend, sink,
                   rec>>

\* A variant of Publish that goes on to wait_for_change when set_widget fails.
Publish_ignores_failure(f) ==
    /\ f \in flows
    /\ pc[f] = "publish"
    /\ \E ok \in BOOLEAN :
          /\ rec' = Set(rec, f, [rec[f] EXCEPT !.publishes = Bump(@),
                                                !.unpublished = Lower(@),
                                                !.sink_failed = @ \/ ~ok])
          /\ sink' = Set(sink, f, IF ok THEN Push(sink[f], Rendered(widget[f]))
                                  ELSE sink[f])
    /\ pc' = Set(pc, f, "wait")
    /\ UNCHANGED <<flows, events, config, result, event_receiver, widget,
                   service_active_state, dbus_conn, encoded, proxy,
                   active_state_changed, backend>>

\* api.set_widget(&widget).await?;
Publish(f) ==
    /\ f \in flows
    /\ pc[f] = "publish"
    /\ \E ok \in BOOLEAN :
          /\ rec' = Set(rec, f, [rec[f] EXCEPT !.publishes = Bump(@),
                                                !.unpublished = Lower(@),
                                                !.sink_failed = @ \/ ~ok])
          /\ IF ok
             THEN /\ sink' = Set(sink, f, Push(sink[f], Rendered(widget[f])))
                  /\ pc' = Set(pc, f, "wait")
                  /\ UNCHANGED <<result, dbus_conn, active_state_changed>>
             ELSE /\ ReturnErr(f, "set_widget")
                  /\ UNCHANGED sink
    /\ UNCHANGED <<flows, events, config, event_receiver, widget, service_active_state,
                   encoded, proxy, backend>>

\* A variant of Wait whose loop goes on with the rendering, skipping the query.
Wait_skips_query(f) ==
    /\ f \in flows
    /\ pc[f] = "wait"
    /\ next_ready(active_state_changed[f])
    /\ rec' = Set(rec, f, [rec[f] EXCEPT
                  !.waits = Bump(@),
                  !.queries = 0,
                  !.stream_end_seen = @ \/ next_item(active_state_changed[f]) = "None"])
    /\ pc' = Set(pc, f, "render")
    /\ active_state_changed' =
           Set(active_state_changed, f, next_stream(active_state_changed[f]))
    /\ UNCHANGED <<flows, events, config, result, event_receiver, widget,
                   service_active_state, dbus_conn, encoded, proxy, backend, sink>>

\* A variant of Wait that leaves the loop when the stream has ended, run
\* returning Ok(()).
Wait_returns_at_end(f) ==
    /\ f \in flows
    /\ pc[f] = "wait"
    /\ next_ready(active_state_changed[f])
    /\ LET item == next_item(active_state_changed[f])
           after == next_stream(active_state_changed[f])
       IN  /\ rec' = Set(rec, f, [rec[f] EXCEPT !.waits = Bump(@),
                                                 !.queries = 0,
                                                 !.stream_end_seen = @ \/ item = "None"])
           /\ IF item = "Some"
              THEN /\ pc' = Set(pc, f, "query")
                   /\ active_state_changed' = Set(active_state_changed, f, after)
                   /\ UNCHANGED <<result, dbus_conn>>
              ELSE /\ pc' = Set(pc, f, "done")
                   /\ result' = Set(result, f, "Ok")
                   /\ dbus_conn' = Set(dbus_conn, f, DropConn(dbus_conn[f]))
                   /\ active_state_changed' =
                          Set(active_state_changed, f, DropStream(after))
    /\ UNCHANGED <<flows, events, config, event_receiver, widget,
                   service_active_state, encoded, proxy, backend, sink>>

\* driver.wait_for_change().await?;  The flow is suspended until next() is ready.
Wait(f) ==
    /\ f \in flows
    /\ pc[f] = "wait"
    /\ next_ready(active_state_changed[f])
    /\ LET item == next_item(active_state_changed[f])
           after == next_stream(active_state_changed[f])
       IN  /\ rec' = Set(rec, f, [rec[f] EXCEPT !.waits = Bump(@),
                                                 !.queries = 0,
                                                 !.stream_end_seen = @ \/ item = "None"])
           /\ IF wait_for_change(item) = "Ok"
              THEN /\ pc' = Set(pc, f, "query")
                   /\ active_state_changed' = Set(active_state_changed, f, after)
                   /\ UNCHANGED <<result, dbus_conn>>
              ELSE /\ pc' = Set(pc, f, "done")
                   /\ result' = Set(result, f, "subscription ended")
                   /\ dbus_conn' = Set(dbus_conn, f, DropConn(dbus_conn[f]))
                   /\ active_state_changed' =
                          Set(active_state_changed, f, DropStream(after))
    /\ UNCHANGED <<flows, events, config, event_receiver, widget, service_active_state,
                   encoded, proxy, backend, sink>>

-----------------------------------------------------------------------------
(* The environment: systemd and the bus. *)

\* The unit's ActiveState changes; an open subscription receives one item.
BackendChange(f) ==
    /\ f \in flows
    /\ backend[f].changes < MaxChanges
    /\ \E s \in ActiveStates \ {backend[f].ActiveState} :
          backend' = Set(backend, f, [ActiveState |-> s,
                                      changes |-> backend[f].changes + 1])
    /\ active_state_changed' =
           Set(active_state_changed, f,
               IF active_state_changed[f].status = "open"
               THEN [active_state_changed[f] EXCEPT !.pending = @ + 1]
               ELSE active_state_changed[f])
    /\ UNCHANGED <<flows, events, config, pc, result, event_receiver, widget,
                   service_active_state, dbus_conn, encoded, proxy, sink, rec>>

\* The unit is started or stopped: a change between "active" and "inactive".
BackendFlip(f) ==
    /\ f \in flows
    /\ backend[f].changes < MaxChanges
    /\ backend' = Set(backend, f,
                      [ActiveState |-> IF backend[f].ActiveState = "active"
                                       THEN "inactive" ELSE "active",
                       changes |-> backend[f].changes + 1])
    /\ active_state_changed' =
           Set(active_state_changed, f,
               IF active_state_changed[f].status = "open"
               THEN [active_state_changed[f] EXCEPT !.pending = @ + 1]
               ELSE active_state_changed[f])
    /\ UNCHANGED <<flows, events, config, pc, result, event_receiver, widget,
                   service_active_state, dbus_conn, encoded, proxy, sink, rec>>

\* The peer disconnects or the bus is torn down: the stream ends.
StreamEnds(f) ==
    /\ f \in flows
    /\ active_state_changed[f].status = "open"
    /\ active_state_changed' =
           Set(active_state_changed, f,
               [active_state_changed[f] EXCEPT !.status = "ended"])
    /\ UNCHANGED <<flows, events, config, pc, result, event_receiver, widget,
                   service_active_state, dbus_conn, encoded, proxy, backend, sink,
                   rec>>

\* The user clicks on the block: the bar sends the event to the block's
\* channel, which buffers it, or refuses it once the receiver is closed.
SendEvent(f) ==
    /\ f \in flows
    /\ events[f].queued + events[f].refused < MaxEvents
    /\ events' =
           Set(events, f,
               IF event_receiver[f] = "open"
               THEN [events[f] EXCEPT !.queued = @ + 1]
               ELSE [events[f] EXCEPT !.refused = @ + 1])
    /\ UNCHANGED <<flows, config, pc, result, event_receiver, widget,
                   service_active_state, dbus_conn, encoded, proxy,
                   active_state_changed, backend, sink, rec>>

-----------------------------------------------------------------------------
(* Specifications. *)

\* One step of flow f's run
Monitor(f) ==
    \/ RunStart(f)
    \/ Formats(f)
    \/ Connect(f)
    \/ Validate(f)
    \/ Encode(f)
    \/ BuildProxy(f)
    \/ Subscribe(f)
    \/ Query(f)
    \/ Render(f)
    \/ Publish(f)
    \/ Wait(f)

Environment(f) ==
    \/ BackendChange(f)
    \/ StreamEnds(f)

Next ==
    \/ \E f \in Flows : RunStart(f)
    \/ \E f \in Flows : Formats(f)
    \/ \E f \in Flows : Connect(f)
    \/ \E f \in Flows : Validate(f)
    \/ \E f \in Flows : Encode(f)
    \/ \E f \in Flows : BuildProxy(f)
    \/ \E f \in Flows : Subscribe(f)
    \/ \E f \in Flows : Query(f)
    \/ \E f \in Flows : Render(f)
    \/ \E f \in Flows : Publish(f)
    \/ \E f \in Flows : Wait(f)
    \/ \E f \in Flows : BackendChange(f)
    \/ \E f \in Flows : StreamEnds(f)

Spec == Init /\ [][Next]_vars

\* The construction of a driver, for every name of EncNames: run up to the
\* first query.
EncInit == InitWith({1}, {MkConfig(n, DefaultProfile) : n \in EncNames}, {"inactive"})

EncNext ==
    \/ \E f \in Flows : RunStart(f)
    \/ \E f \in Flows : Formats(f)
    \/ \E f \in Flows : Connect(f)
    \/ \E f \in Flows : Validate(f)
    \/ \E f \in Flows : Encode(f)
    \/ \E f \in Flows : BuildProxy(f)
    \/ \E f \in Flows : Subscribe(f)

EncSpec == EncInit /\ [][EncNext]_vars

\* The monitor with a user who clicks on the block.
EventNext ==
    \/ Next
    \/ \E f \in Flows : SendEvent(f)

EventInit == InitWith({1}, Configs, {"active", "inactive"})

EventSpec == EventInit /\ [][EventNext]_vars

\* Two monitors side by side, for units that are started and stopped.
TwoConfigs == {MkConfig(cups, PlainProfile), MkConfig(a_dash_b, DefaultProfile)}

TwoInit ==
    /\ InitWith({1, 2}, TwoConfigs, {"active"})
    /\ config[1].service = cups
    /\ config[2].service = a_dash_b

TwoNext ==
    \/ \E f \in Flows : RunStart(f)
    \/ \E f \in Flows : Formats(f)
    \/ \E f \in Flows : Connect(f)
    \/ \E f \in Flows : Validate(f)
    \/ \E f \in Flows : Encode(f)
    \/ \E f \in Flows : BuildProxy(f)
    \/ \E f \in Flows : Subscribe(f)
    \/ \E f \in Flows : Query(f)
    \/ \E f \in Flows : Render(f)
    \/ \E f \in Flows : Publish(f)
    \/ \E f \in Flows : Wait(f)
    \/ \E f \in Flows : BackendFlip(f)
    \/ \E f \in Flows : StreamEnds(f)

TwoSpec == TwoInit /\ [][TwoNext]_vars

\* The executor polls a flow that can make progress.
FairSpec == Spec /\ \A f \in Flows : WF_vars(Monitor(f))

-----------------------------------------------------------------------------
(* Properties. *)

Last(q) == q[Len(q)]

\* A name that is not ASCII: one of its bytes has the high bit set.
HasNonAsciiByte(s) == \E i \in 1..Len(s) : s[i] >= 128

\* The status the specification expects for a configuration and a query result:
\* the classification and the template of the selected profile, with the
\* configured service name in place of $service.
ExpectedStatus(cfg, active) ==
    [state |-> IF active
               THEN (IF cfg.active_state = NoState THEN "Idle" ELSE cfg.active_state)
               ELSE (IF cfg.inactive_state = NoState THEN "Critical"
                     ELSE cfg.inactive_state),
     text  |-> IF active
               THEN (IF cfg.active_format.given
                     THEN cfg.service \o SpActive
                     ELSE Sp \o cfg.service \o SpActive \o Sp)
               ELSE (IF cfg.inactive_format.given
                     THEN cfg.service \o SpInactive
                     ELSE Sp \o cfg.service \o SpInactive \o Sp)]

\* C1: whenever a query is about to be issued or has been issued, the
\* ActiveState subscription has already been opened.
C1_SubscribedBeforeQuery ==
    \A f \in flows :
        (pc[f] = "query" \/ rec[f].queried)
            => active_state_changed[f].status # "none"

C1_Witness ==
    \E f \in flows :
        /\ rec[f].queried
        /\ pc[f] = "render"
        /\ active_state_changed[f].status = "open"

\* C2 (as claimed): once next() has found the stream ended, run has returned the
\* error of wait_for_change.
C2_StreamEndIsFatal ==
    \A f \in flows :
        rec[f].stream_end_seen
            => pc[f] = "done" /\ result[f] = "subscription ended"

\* C3: with the subscription open and no failure, the flow settles in
\* wait_for_change with no undelivered item and the last published status that
\* of the backend's final ActiveState.
C3_NoTransitionMissed ==
    <>[](\A f \in flows :
            \/ pc[f] = "done"
            \/ active_state_changed[f].status # "open"
            \/ /\ pc[f] = "wait"
               /\ active_state_changed[f].pending = 0
               /\ sink[f] # <<>>
               /\ Last(sink[f]) =
                      ExpectedStatus(config[f], backend[f].ActiveState = "active"))

C3_Witness ==
    \E f \in flows :
        /\ pc[f] = "wait"
        /\ active_state_changed[f] = [status |-> "open", pending |-> 0]
        /\ backend[f].changes = MaxChanges
        /\ Len(sink[f]) >= 2
        /\ sink[f][Len(sink[f]) - 1] # Last(sink[f])
        /\ Last(sink[f]) = ExpectedStatus(config[f], backend[f].ActiveState = "active")

\* C4 (as claimed): with a non-ASCII service name no bus connection is ever
\* attempted.
C4_NoConnectionAttempt ==
    \A f \in flows :
        HasNonAsciiByte(config[f].service) => ~rec[f].conn_attempted

\* C4 (amended): with a non-ASCII service name nothing is encoded, no proxy is
\* built and no subscription is opened; the validation error is returned only
\* after the bus connection was opened.
C4_ValidationBeforeEncoding ==
    \A f \in flows :
        HasNonAsciiByte(config[f].service)
            => /\ encoded[f] = <<>>
               /\ proxy[f] = <<>>
               /\ active_state_changed[f].status = "none"
               /\ pc[f] \in {"start", "formats", "connect", "validate", "done"}
               /\ result[f] \in {"running", "format", "connect", "validation"}
               /\ result[f] = "validation"
                      => rec[f].conn_attempted /\ dbus_conn[f] = "dropped"

C4_Witness ==
    \E f \in flows :
        /\ HasNonAsciiByte(config[f].service)
        /\ pc[f] = "done"
        /\ result[f] = "validation"
        /\ rec[f].conn_attempted

\* C5: queries and waits alternate, starting with a query: exactly one query
\* between two waits, and exactly one wait between two queries.
C5_QueryWaitAlternate ==
    \A f \in flows :
        /\ rec[f].queries <= 1
        /\ rec[f].waits <= 1
        /\ pc[f] = "query" => rec[f].queries = 0
        /\ pc[f] \in {"render", "publish", "wait"} => rec[f].queries = 1 /\ rec[f].waits = 0
        /\ rec[f].waits > 0 => rec[f].queried

C5_Witness ==
    \E f \in flows :
        /\ pc[f] = "wait"
        /\ rec[f].queries = 1
        /\ Len(sink[f]) >= 2

\* C6: the step in which a query fails ends run with that error and publishes
\* nothing; no step makes run fail without ending it; and after run has ended
\* the flow issues no query, publish or wait.
C6_ErrorsAreFatal ==
    [][\A f \in flows :
          /\ (pc[f] = "query" /\ rec'[f] # rec[f] /\ ~rec'[f].last_read[1].ok)
                => /\ pc'[f] = "done"
                   /\ result'[f] = "Could not get active_state"
                   /\ sink'[f] = sink[f]
          /\ (result[f] = "running" /\ result'[f] # "running")
                => pc'[f] = "done" /\ sink'[f] = sink[f]
          /\ pc[f] = "done"
                => /\ pc'[f] = "done"
                   /\ result'[f] = result[f]
                   /\ sink'[f] = sink[f]
                   /\ rec'[f] = rec[f]
                   /\ widget'[f] = widget[f]
                   /\ service_active_state'[f] = service_active_state[f]]_vars

C6_Witness ==
    \E f \in flows :
        /\ pc[f] = "done"
        /\ result[f] = "Could not get active_state"
        /\ ~rec[f].last_read[1].ok
        /\ service_active_state[f] # <<>>
        /\ sink[f] # <<>>

\* The digits of the lowercase hexadecimal notation, '0'..'9' and 'a'..'f'
HexChars ==
    <<48, 49, 50, 51, 52, 53, 54, 55, 56, 57, 97, 98, 99, 100, 101, 102>>

\* The reference escaping of one byte: a letter or a digit as it is, any other
\* byte as '_' and its two hexadecimal digits.
RefEscape(b) ==
    IF \/ (65 <= b /\ b <= 90)
       \/ (97 <= b /\ b <= 122)
       \/ (48 <= b /\ b <= 57)
    THEN <<b>>
    ELSE <<95, HexChars[(b \div 16) + 1], HexChars[(b % 16) + 1]>>

RECURSIVE RefEscapeAll(_)
RefEscapeAll(s) ==
    IF s = <<>> THEN <<>> ELSE RefEscape(Head(s)) \o RefEscapeAll(Tail(s))

\* The reference encoding of a service name
RefEncode(name) == RefEscapeAll(name \o DotService)

\* "cups_2eservice" and "a_2db_2eservice"
cups_2eservice ==
    <<99, 117, 112, 115, 95, 50, 101, 115, 101, 114, 118, 105, 99, 101>>
a_2db_2eservice ==
    <<97, 95, 50, 100, 98, 95, 50, 101, 115, 101, 114, 118, 105, 99, 101>>

\* C7: the encoded path segment of an ASCII name is the reference encoding,
\* "cups" gives "cups_2eservice", "a-b" gives "a_2db_2eservice", and the proxy's
\* path is "/org/freedesktop/systemd1/unit/" followed by the segment.
C7_EncodingMatchesReference ==
    \A f \in flows :
        /\ encoded[f] # <<>>
              => /\ ~HasNonAsciiByte(config[f].service)
                 /\ encoded[f] = RefEncode(config[f].service)
                 /\ config[f].service = cups => encoded[f] = cups_2eservice
                 /\ config[f].service = a_dash_b => encoded[f] = a_2db_2eservice
        /\ proxy[f] # <<>>
              => /\ Len(proxy[f]) = 31 + Len(encoded[f])
                 /\ SubSeq(proxy[f], 1, 31) = UnitPathPrefix
                 /\ SubSeq(proxy[f], 32, Len(proxy[f])) = RefEncode(config[f].service)

C7_Witness ==
    \E f \in flows :
        /\ config[f].service = a_dash_b
        /\ encoded[f] = a_2db_2eservice
        /\ proxy[f] = UnitPathPrefix \o a_2db_2eservice

\* C8: a successful read makes the query true exactly when the string read is
\* "active"; a failed read makes run return the error and leaves no new state.
C8_ActiveIffExactlyActive ==
    \A f \in flows :
        rec[f].last_read # <<>>
            => LET read == rec[f].last_read[1]
               IN  /\ read.ok /\ read.value = "active"
                         => service_active_state[f] = <<TRUE>>
                   /\ read.ok /\ read.value # "active"
                         => service_active_state[f] = <<FALSE>>
                   /\ read.ok => read.value \in ActiveStates
                   /\ ~read.ok
                         => /\ pc[f] = "done"
                            /\ result[f] = "Could not get active_state"

C8_Witness ==
    \E f \in flows :
        /\ rec[f].last_read # <<>>
        /\ rec[f].last_read[1].ok
        /\ rec[f].last_read[1].value = "activating"
        /\ service_active_state[f] = <<FALSE>>

\* "cups active" and "cups inactive"
cups_active == <<99, 117, 112, 115, 32, 97, 99, 116, 105, 118, 101>>
cups_inactive == <<99, 117, 112, 115, 32, 105, 110, 97, 99, 116, 105, 118, 101>>

\* C9: the status just published is the one of the profile the iteration's query
\* selects, with the raw service name for $service; for "cups" with the plain
\* templates it is (Good, "cups active") or (Warning, "cups inactive").
C9_PublishedFollowsQuery ==
    \A f \in flows :
        pc[f] = "wait"
            => /\ sink[f] # <<>>
               /\ service_active_state[f] # <<>>
               /\ Last(sink[f]) = ExpectedStatus(config[f], service_active_state[f][1])
               /\ config[f] = MkConfig(cups, PlainProfile)
                     => Last(sink[f]) =
                            IF service_active_state[f][1]
                            THEN [state |-> "Good", text |-> cups_active]
                            ELSE [state |-> "Warning", text |-> cups_inactive]

C9_Witness ==
    \E f \in flows :
        /\ pc[f] = "wait"
        /\ config[f] = MkConfig(cups, PlainProfile)
        /\ sink[f] = <<[state |-> "Good", text |-> cups_active],
                       [state |-> "Warning", text |-> cups_inactive]>>

\* C10 (as claimed): a wait_for_change that returns because the stream was
\* closed makes run return an error.
C10_ClosedWaitReturnsError ==
    [][\A f \in flows :
          (/\ pc[f] = "wait"
           /\ active_state_changed[f].status = "ended"
           /\ active_state_changed[f].pending = 0
           /\ pc'[f] # "wait")
              => pc'[f] = "done" /\ result'[f] # "running"]_vars

\* The errors run returns: of the formats, of SystemdDriver::new, of is_active,
\* of set_widget and of wait_for_change.
RunErrors ==
    {"format", "connect", "validation", "Could not set path",
     "Failed to create UnitProxy", "Could not get active_state", "set_widget",
     "subscription ended"}

\* The places of run before it has returned
RunPlaces ==
    {"start", "formats", "connect", "validate", "encode", "proxy", "subscribe",
     "query", "render", "publish", "wait"}

\* C11: run is in the loop (or on its way to it) with no result, or has returned
\* an error; it never returns Ok.
C11_NeverReturnsOk ==
    \A f \in flows :
        /\ result[f] # "Ok"
        /\ pc[f] \in RunPlaces => result[f] = "running"
        /\ pc[f] \notin RunPlaces => pc[f] = "done" /\ result[f] \in RunErrors

C11_Witness ==
    \E f \in flows :
        /\ pc[f] = "done"
        /\ result[f] = "Could not get active_state"
        /\ rec[f].stream_end_seen
        /\ active_state_changed[f].status = "dropped"

\* C12 (as claimed): with a non-ASCII service name run ends with the validation
\* error.
C12_EndsWithValidationError ==
    \A f \in flows :
        HasNonAsciiByte(config[f].service) /\ pc[f] = "done"
            => result[f] = "validation"

\* C12 (amended): with a non-ASCII service name no proxy is built, no
\* subscription is opened, nothing is queried, published or waited for, and run
\* ends before the loop (until it has ended it can always take its next step):
\* with the validation error when the formats are valid and the bus connection
\* was opened, else with the error of the formats or of the connection.
C12_NonAsciiNeverReachesLoop ==
    \A f \in flows :
        HasNonAsciiByte(config[f].service)
            => /\ proxy[f] = <<>>
               /\ active_state_changed[f].status = "none"
               /\ ~rec[f].queried
               /\ rec[f].publishes = 0 /\ ~rec[f].sink_failed
               /\ rec[f].waits = 0
               /\ sink[f] = <<>>
               /\ pc[f] \in {"start", "formats", "connect", "validate", "done"}
               /\ pc[f] = "done" => result[f] \in {"format", "connect", "validation"}
               /\ result[f] = "validation" <=> dbus_conn[f] = "dropped"
               /\ pc[f] # "done" => ENABLED Monitor(f)

C12_Witness ==
    \E f \in flows :
        /\ HasNonAsciiByte(config[f].service)
        /\ result[f] = "validation"
        /\ dbus_conn[f] = "dropped"
        /\ event_receiver[f] = "closed"
        /\ proxy[f] = <<>>
        /\ sink[f] = <<>>
        /\ ~rec[f].queried

\* C13: when a step of the construction fails, run has ended without a
\* subscription and without any query, publish or wait; and run is in the loop
\* only with the connection open, the proxy built at the unit's path and the
\* subscription opened.
C13_NoPartialFailure ==
    \A f \in flows :
        /\ result[f] \in {"connect", "Could not set path", "Failed to create UnitProxy"}
              => /\ pc[f] = "done"
                 /\ proxy[f] = <<>>
                 /\ active_state_changed[f].status = "none"
                 /\ dbus_conn[f] # "open"
                 /\ ~rec[f].queried
                 /\ rec[f].publishes = 0
                 /\ rec[f].waits = 0
                 /\ sink[f] = <<>>
        /\ pc[f] \in {"query", "render", "publish", "wait"}
              => /\ dbus_conn[f] = "open"
                 /\ proxy[f] = UnitPathPrefix \o RefEncode(config[f].service)
                 /\ active_state_changed[f].status \in {"open", "ended"}
        /\ rec[f].queried
              => proxy[f] # <<>> /\ dbus_conn[f] # "none"

C13_Witness ==
    \E f \in flows :
        /\ pc[f] = "done"
        /\ result[f] = "Failed to create UnitProxy"
        /\ dbus_conn[f] = "dropped"
        /\ encoded[f] # <<>>
        /\ ~rec[f].queried

\* C14 (as claimed): a flow suspended in wait_for_change on an open subscription
\* with no item stays there and queries and publishes nothing; and the loop goes
\* from the wait to a query only by taking an item from the subscription.
C14_QueryOnlyAfterItem ==
    [][\A f \in flows :
          /\ (/\ pc[f] = "wait"
              /\ active_state_changed[f] = [status |-> "open", pending |-> 0])
                => /\ pc'[f] = "wait"
                   /\ rec'[f] = rec[f]
                   /\ sink'[f] = sink[f]
          /\ (pc[f] = "wait" /\ pc'[f] = "query")
                => /\ active_state_changed[f].pending > 0
                   /\ active_state_changed'[f].pending =
                          active_state_changed[f].pending - 1]_vars

\* C15: set_widget is called once in every iteration, after the query and before
\* the wait: at every wait, at every query and when run has ended, as many calls
\* of set_widget as successful queries have been made, and in between the
\* query just made is the only one not yet published; a wait is entered only
\* after one publish since the query.
C15_OnePublishPerIteration ==
    \A f \in flows :
        /\ rec[f].unpublished \in {0, 1}
        /\ rec[f].publishes <= 1
        /\ pc[f] \in {"render", "publish"}
              => rec[f].unpublished = 1 /\ rec[f].publishes = 0
        /\ pc[f] = "wait"
              => rec[f].unpublished = 0 /\ rec[f].publishes = 1 /\ rec[f].queries = 1
        /\ pc[f] = "query"
              => rec[f].unpublished = 0 /\ (rec[f].queried => rec[f].publishes = 1)
        /\ pc[f] = "done" => rec[f].unpublished = 0

\* Two equal statuses published one after the other, on a notification that left
\* the query's result as it was.
C15_Witness ==
    \E f \in flows :
        /\ pc[f] = "wait"
        /\ active_state_changed[f].status = "open"
        /\ backend[f].changes >= 1
        /\ ~rec[f].stream_end_seen
        /\ Len(sink[f]) >= 2
        /\ sink[f][Len(sink[f]) - 1] = Last(sink[f])
        /\ rec[f].unpublished = 0

\* All that belongs to flow f
FlowState(f) ==
    <<events[f], config[f], pc[f], result[f], event_receiver[f], widget[f],
      service_active_state[f], dbus_conn[f], encoded[f], proxy[f],
      active_state_changed[f], backend[f], sink[f], rec[f]>>

\* C16: a step that changes one flow's state leaves the state of every other
\* flow as it was (so the end of one run, or of its subscription, ends no other);
\* two flows for different services have proxies at different paths; and a flow
\* that has not ended and is not suspended on an open, empty subscription can
\* take its next step whatever the other flow's state is.
C16_FlowsIndependent ==
    /\ [][\A f \in Flows :
             FlowState(f)' # FlowState(f)
                => \A g \in Flows \ {f} : FlowState(g)' = FlowState(g)]_vars
    /\ [](\A f \in flows :
             /\ \A g \in flows \ {f} :
                   (proxy[f] # <<>> /\ config[f].service # config[g].service)
                       => proxy[f] # proxy[g]
             /\ (/\ pc[f] # "done"
                 /\ pc[f] = "wait" => next_ready(active_state_changed[f]))
                   => ENABLED Monitor(f))

C16_Witness ==
    /\ flows = {1, 2}
    /\ pc[1] = "done"
    /\ result[1] = "Could not get active_state"
    /\ rec[1].stream_end_seen
    /\ pc[2] = "wait"
    /\ active_state_changed[2] = [status |-> "open", pending |-> 0]
    /\ dbus_conn[2] = "open"
    /\ Len(sink[2]) >= 2
    /\ sink[2][Len(sink[2]) - 1] # Last(sink[2])

\* The bytes an object-path segment may hold besides '_', and the lowercase
\* hexadecimal digits
LetterOrDigit(b) ==
    \E r \in {<<48, 57>>, <<65, 90>>, <<97, 122>>} : r[1] <= b /\ b <= r[2]
LowerHexDigit(b) == (48 <= b /\ b <= 57) \/ (97 <= b /\ b <= 102)

\* "_2eservice" and "getty_40tty1_2eservice"
U2eservice == <<95, 50, 101, 115, 101, 114, 118, 105, 99, 101>>
getty_40tty1_2eservice ==
    <<103, 101, 116, 116, 121, 95, 52, 48, 116, 116, 121, 49, 95, 50, 101, 115,
      101, 114, 118, 105, 99, 101>>

\* C17: the encoded segment holds only letters, digits and underscores; every
\* underscore is followed by two lowercase hexadecimal digits, and stands for
\* one byte of the name and its suffix (so the segment is longer than them by
\* two bytes for every underscore); the segment ends with "_2eservice".
C17_SegmentIsLegal ==
    \A f \in flows :
        encoded[f] # <<>>
            => LET e == encoded[f]
                   n == Len(e)
                   underscores == {i \in 1..n : e[i] = 95}
               IN  /\ \A i \in 1..n : LetterOrDigit(e[i]) \/ e[i] = 95
                   /\ \A i \in underscores :
                         /\ i + 2 <= n
                         /\ LowerHexDigit(e[i + 1])
                         /\ LowerHexDigit(e[i + 2])
                   /\ n = Len(config[f].service) + 8 + 2 * Cardinality(underscores)
                   /\ n >= 10
                   /\ SubSeq(e, n - 9, n) = U2eservice

C17_Witness ==
    \E f \in flows :
        /\ config[f].service = getty_at_tty1
        /\ encoded[f] = getty_40tty1_2eservice

\* C18: the event receiver is closed by run's first step, so before the bus
\* connection is attempted and on every path to the end of run; an event the
\* user sends changes nothing but the channel (it is refused once the receiver
\* is closed), and run never takes an event out of the channel.
C18_InputIgnored ==
    /\ [](\A f \in flows :
             /\ pc[f] # "start" => event_receiver[f] = "closed"
             /\ pc[f] = "start"
                   => /\ event_receiver[f] = "open"
                      /\ ~rec[f].conn_attempted
                      /\ dbus_conn[f] = "none"
                      /\ result[f] = "running"
             /\ events[f].refused > 0 => event_receiver[f] = "closed")
    /\ [][\A f \in flows :
             /\ events'[f] # events[f]
                   => /\ pc'[f] = pc[f]
                      /\ result'[f] = result[f]
                      /\ rec'[f] = rec[f]
                      /\ sink'[f] = sink[f]
                      /\ widget'[f] = widget[f]
                      /\ service_active_state'[f] = service_active_state[f]
                      /\ event_receiver[f] = "closed"
                            => events'[f].queued = events[f].queued
             /\ events'[f].queued >= events[f].queued]_vars

C18_Witness ==
    \E f \in flows :
        /\ events[f].queued >= 1
        /\ events[f].refused >= 1
        /\ event_receiver[f] = "closed"
        /\ pc[f] = "done"
        /\ result[f] = "connect"

\* "/org/freedesktop/systemd1/unit/a_5f2db_2eservice"
a_5f2db_2eservice == <<97, 95, 53, 102, 50, 100, 98, 95, 50, 101,
                       115, 101, 114, 118, 105, 99, 101>>

\* C19: the encoding is injective on ASCII names: the segment and the object
\* path a monitor is bound to differ from those of every other ASCII name of
\* EncNames, names with '_' and names that look like escapes included.
C19_EncodingInjective ==
    \A f \in flows :
        proxy[f] # <<>>
           => \A n \in EncNames :
                 (~HasNonAsciiByte(n) /\ n # config[f].service)
                    => /\ encoded_service(n) # encoded[f]
                       /\ path(n) # proxy[f]

C19_Witness ==
    \E f \in flows :
        /\ config[f].service = a_2db
        /\ encoded[f] = a_5f2db_2eservice
        /\ proxy[f] = UnitPathPrefix \o a_5f2db_2eservice
        /\ encoded_service(a_dash_b) = a_2db_2eservice

\* C20: a failure of set_widget ends run at once with that error: the failed
\* call is the last step of the iteration's query (no wait_for_change follows
\* it), and from then on the flow makes no query, no publish and no wait.
C20_SinkFailureIsFatal ==
    /\ [](\A f \in flows :
             rec[f].sink_failed
                => /\ pc[f] = "done"
                   /\ result[f] = "set_widget"
                   /\ rec[f].queries = 1
                   /\ rec[f].publishes = 1
                   /\ rec[f].waits = 0)
    /\ [][\A f \in flows :
             rec[f].sink_failed
                => /\ rec'[f] = rec[f]
                   /\ sink'[f] = sink[f]
                   /\ pc'[f] = pc[f]
                   /\ result'[f] = result[f]]_vars

C20_Witness ==
    \E f \in flows :
        /\ rec[f].sink_failed
        /\ pc[f] = "done"
        /\ result[f] = "set_widget"
        /\ sink[f] # <<>>

====
